---- MODULE Spec2Model ----
(***************************************************************************)
(* Model of TestsetGenerator.generate (src/src/ragas/testset/generator.py) *)
(* as a state machine: validation of the distribution, the step-1 rounding *)
(* loop, the backfill loop, the sequential results() loop over the         *)
(* executors and the final NaN filter.                                     *)
(*                                                                         *)
(* Weights are integers in thousandths.  The weights of WeightVals that    *)
(* an accepted mapping can hold are multiples of 125: such weights are     *)
(* exact binary floats, so probability * test_size is exact in the code    *)
(* and Python's round() is round-half-to-even on the rational value, which *)
(* is what Round computes.  0.999 only occurs in rejected mappings (sums   *)
(* one thousandth away from 1.0).                                          *)
(***************************************************************************)
EXTENDS Integers, Sequences, FiniteSets

VARIABLES call, evolution_in, node_index, num_nodes, evolution, node,
          test_size, distributions, raise_exceptions,
          pc, error, initialised, execs, current_nodes, total_evolutions,
          evo, i, filler_evolutions, fill_pos,
          run_idx, results_calls, evolve_calls, in_flight, failed_unit,
          total_test_data_rows, test_dataset

vars == <<call, evolution_in, node_index, num_nodes, evolution, node,
          test_size, distributions, raise_exceptions,
          pc, error, initialised, execs, current_nodes, total_evolutions,
          evo, i, filler_evolutions, fill_pos,
          run_idx, results_calls, evolve_calls, in_flight, failed_unit,
          total_test_data_rows, test_dataset>>

inputs == <<call, evolution_in, node_index, num_nodes,
            test_size, distributions, raise_exceptions>>

\* what generate_single works on: the strategy it configures and the node
\* it selects
single == <<evolution, node>>

sched == <<execs, current_nodes, total_evolutions, evo, i,
           filler_evolutions, fill_pos>>

running == <<run_idx, results_calls, evolve_calls, in_flight, failed_unit,
             total_test_data_rows>>

(* ------------------------------ bounds --------------------------------- *)
MaxTestSize == 11
MaxStrategies == 3
MaxInvalid == 2
MaxNodes == 2

(* ------------------------- program constants --------------------------- *)
max_parallel_process == 10

WeightVals == {-500, 0, 250, 500, 999, 1000, 1500}
Scale == 1000

\* what generate has returned: nothing yet, or TestDataset(test_data=rows)
NoDataset == [returned |-> FALSE, test_data |-> <<>>]
TestDataset(rows) == [returned |-> TRUE, test_data |-> rows]

(* ------------------------------ helpers -------------------------------- *)
RECURSIVE SumSeq(_)
SumSeq(s) == IF s = <<>> THEN 0 ELSE Head(s) + SumSeq(Tail(s))

\* ragas.utils.check_if_sum_is_close(values, 1.0, 3): |sum - 1.0| < 1e-3,
\* which on integer thousandths is equality with 1000.
check_if_sum_is_close(values) == SumSeq(values) = Scale

\* round(probability * test_size) forced up to one task per strategy
RoundAtLeastOne(w, n) ==
    LET q == (w * n) \div Scale
        r == (w * n) % Scale
        c == IF 2 * r < Scale THEN q
             ELSE IF 2 * r > Scale THEN q + 1
             ELSE IF q % 2 = 0 THEN q ELSE q + 1
    IN  IF c < 1 THEN 1 ELSE c

\* Python round(probability * test_size): round half to even.
Round(w, n) ==
    LET q == (w * n) \div Scale
        r == (w * n) % Scale
    IN  IF 2 * r < Scale THEN q
        ELSE IF 2 * r > Scale THEN q + 1
        ELSE IF q % 2 = 0 THEN q ELSE q + 1

\* random.choices(list(distributions), k=k): every list of k strategies,
\* drawn uniformly with replacement from the keys of the mapping.
choices(population, k) == [1..k -> population]

\* the sentinel of a failed or filtered generation, and a generated row
NaN == [nan |-> TRUE, seq |-> 0, evolution |-> 0, node |-> 0]
DataRow(task) == [nan |-> FALSE, seq |-> task.seq,
                  evolution |-> task.evolution, node |-> task.node]
is_nan(r) == r.nan

\* Executor.submit: registers the task last in the unit
Executor_submit(unit, task) == Append(unit, task)

\* does total_evolutions sit on a batch boundary after this submission
RolloverNever(total) == total % max_parallel_process = max_parallel_process
Rollover(total) == total % max_parallel_process = max_parallel_process - 1

\* execs[-1].submit(...) followed by the conditional execs.append(Executor())
SubmitToLast(es, task, total) ==
    LET n == Len(es)
        es1 == [es EXCEPT ![n] = Executor_submit(es[n], task)]
    IN  IF Rollover(total) THEN Append(es1, <<>>) ELSE es1

\* per-task outcomes of one unit, in registration order, with at most d
\* outcomes that are not a row (a run has at most MaxInvalid of them)
RECURSIVE Outcomes(_, _)
Outcomes(n, d) ==
    IF n = 0 THEN {<<>>}
    ELSE {Append(o, "row") : o \in Outcomes(n - 1, d)}
         \cup (IF d = 0 THEN {}
               ELSE {Append(o, x) : o \in Outcomes(n - 1, d - 1),
                                     x \in {"nan", "fail"}})

\* Executor.results(): a failure aborts the unit when raise_exceptions is
\* set and becomes NaN otherwise; outcomes keep registration order.
Executor_results(unit, outcome, raise) ==
    IF raise /\ \E k \in 1..Len(unit) : outcome[k] = "fail"
    THEN [raised |-> TRUE, rows |-> <<>>]
    ELSE [raised |-> FALSE,
          rows |-> [k \in 1..Len(unit) |->
                      IF outcome[k] = "row" THEN DataRow(unit[k]) ELSE NaN]]

\* line 369: total_test_data_rows += test_data_rows
ExtendRowsFront(total, rows) == rows \o total
ExtendRows(total, rows) == total \o rows

\* line 377: [r for r in total_test_data_rows if not is_nan(r)]
DropNaNsNever(rows) == rows
DropNaNs(rows) == SelectSeq(rows, LAMBDA r : ~is_nan(r))

\* bookkeeping: the first unit of a fail-fast run in which some task failed
\* (0: none so far)
FirstFailed(prev, u, outcome, raise) ==
    IF raise /\ prev = 0 /\ \E k \in 1..Len(outcome) : outcome[k] = "fail"
    THEN u ELSE prev

\* the class names the strategies of a mapping can carry (lines 22-30);
\* two strategies of one mapping may be instances of the same class
ClassNames == {"SimpleEvolution", "ReasoningEvolution",
               "MultiContextEvolution"}

\* lines 333 and 352: name=f"{evolution.__class__.__name__}-{index}"
TaskName(class_name, task) == <<class_name, task.idx>>

RECURSIVE NumTasks(_)
NumTasks(es) == IF es = <<>> THEN 0 ELSE Len(Head(es)) + NumTasks(Tail(es))

NumStrategies == Len(distributions)

\* the NaN outcomes collected so far
NumInvalid ==
    Cardinality({k \in 1..Len(total_test_data_rows) :
                    is_nan(total_test_data_rows[k])})

\* a strategy object: each collaborator is None, set by the caller ("own")
\* or set by init_evolution ("shared"); only a ComplexEvolution has an
\* evolution_filter
Unconfigured ==
    [is_complex |-> FALSE, generator_llm |-> "None", docstore |-> "None",
     question_filter |-> "None", node_filter |-> "None",
     evolution_filter |-> "None"]

Evolutions ==
    {e \in [is_complex : BOOLEAN,
            generator_llm : {"None", "own"}, docstore : {"None", "own"},
            question_filter : {"None", "own"}, node_filter : {"None", "own"},
            evolution_filter : {"None", "own"}] :
        ~e.is_complex => e.evolution_filter = "None"}

\* lines 267-280: init_evolution(evolution)
init_evolution(e) ==
    LET fill(x) == IF x = "None" THEN "shared" ELSE x
    IN  IF e.generator_llm = "None"
        THEN [e EXCEPT !.generator_llm = "shared",
                       !.docstore = fill(@),
                       !.question_filter = fill(@),
                       !.node_filter = fill(@),
                       !.evolution_filter =
                           IF e.is_complex THEN fill(@) ELSE @]
        ELSE e

\* node_index: <<>> is None, <<k>> the index k
NodeIndexes ==
    {<<>>} \cup {<<k>> : k \in -(MaxNodes + 1)..(MaxNodes + 1)}

(* ------------------------------- Init ---------------------------------- *)
\* a call of generate(test_size, distributions, raise_exceptions)
InitGenerate ==
    /\ call = "generate"
    /\ test_size \in 0..MaxTestSize
    /\ distributions \in UNION {[1..k -> WeightVals] : k \in 1..MaxStrategies}
    /\ raise_exceptions \in BOOLEAN
    /\ pc = "validate"
    /\ evolution_in = Unconfigured
    /\ node_index = <<>>
    /\ num_nodes = 0

\* a call of generate_single(evolution, node_index=node_index) on a
\* docstore of num_nodes nodes
InitSingle ==
    /\ call = "generate_single"
    /\ evolution_in \in Evolutions
    /\ node_index \in NodeIndexes
    /\ num_nodes \in 1..MaxNodes
    /\ pc = "single_init"
    /\ test_size = 1
    /\ distributions = <<Scale>>
    /\ raise_exceptions = TRUE

Init ==
    /\ InitGenerate \/ InitSingle
    /\ evolution = evolution_in
    /\ node = 0
    /\ error = "none"
    /\ initialised = {}
    /\ execs = <<>>
    /\ current_nodes = <<>>
    /\ total_evolutions = 0
    /\ evo = 0
    /\ i = 0
    /\ filler_evolutions = <<>>
    /\ fill_pos = 0
    /\ run_idx = 0
    /\ results_calls = {}
    /\ evolve_calls = 0
    /\ in_flight = 0
    /\ failed_unit = 0
    /\ total_test_data_rows = <<>>
    /\ test_dataset = NoDataset

(* ------------------------------ actions -------------------------------- *)
\* lines 291-295, with the check made only after the strategies are set up
ValidateAfterInit ==
    /\ pc = "validate"
    /\ IF check_if_sum_is_close(distributions)
       THEN pc' = "init" /\ error' = error /\ UNCHANGED initialised
       ELSE /\ pc' = "raised"
            /\ error' = "ValueError"
            /\ initialised' = 1..NumStrategies
    /\ UNCHANGED <<inputs, single, sched, running, test_dataset>>

\* lines 291-295, with the `not` of the test dropped
ValidateInverted ==
    /\ pc = "validate"
    /\ IF check_if_sum_is_close(distributions)
       THEN pc' = "raised" /\ error' = "ValueError"
       ELSE pc' = "init" /\ error' = error
    /\ UNCHANGED <<inputs, single, initialised, sched, running, test_dataset>>

\* lines 291-295
Validate ==
    /\ pc = "validate"
    /\ IF check_if_sum_is_close(distributions)
       THEN pc' = "init" /\ error' = error
       ELSE pc' = "raised" /\ error' = "ValueError"
    /\ UNCHANGED <<inputs, single, initialised, sched, running, test_dataset>>

\* lines 303-305
InitEvolutions ==
    /\ pc = "init"
    /\ initialised' = 1..NumStrategies
    /\ pc' = "create"
    /\ UNCHANGED <<inputs, single, error, sched, running, test_dataset>>

\* lines 316-327: first Executor, the sampled node-contexts, the cursor
CreateExecs ==
    /\ pc = "create"
    /\ execs' = << <<>> >>
    /\ current_nodes' = [j \in 1..test_size |-> j - 1]
    /\ total_evolutions' = 0
    /\ evo' = 1
    /\ i' = 0
    /\ pc' = "step1"
    /\ UNCHANGED <<inputs, single, error, initialised, filler_evolutions, fill_pos,
                   running, test_dataset>>

\* lines 329-343: one iteration of the inner loop; current_nodes[i] with
\* i beyond the list raises IndexError
Step1Submit ==
    /\ pc = "step1"
    /\ evo <= NumStrategies
    /\ i < Round(distributions[evo], test_size)
    /\ IF i < Len(current_nodes)
       THEN /\ execs' = SubmitToLast(execs,
                           [evolution |-> evo, node |-> current_nodes[i + 1],
                            idx |-> i, seq |-> total_evolutions],
                           total_evolutions)
            /\ total_evolutions' = total_evolutions + 1
            /\ i' = i + 1
            /\ UNCHANGED <<pc, error>>
       ELSE /\ pc' = "raised"
            /\ error' = "IndexError"
            /\ UNCHANGED <<execs, total_evolutions, i>>
    /\ UNCHANGED <<inputs, single, initialised, current_nodes, evo,
                   filler_evolutions, fill_pos, running, test_dataset>>

\* line 328: the inner range is exhausted, next item of the mapping
Step1Next ==
    /\ pc = "step1"
    /\ evo <= NumStrategies
    /\ i >= Round(distributions[evo], test_size)
    /\ evo' = evo + 1
    /\ i' = 0
    /\ UNCHANGED <<inputs, single, pc, error, initialised, execs, current_nodes,
                   total_evolutions, filler_evolutions, fill_pos, running,
                   test_dataset>>

\* lines 344-347: the filler strategies are drawn
BackfillDraw ==
    /\ pc = "step1"
    /\ evo > NumStrategies
    /\ total_evolutions <= test_size
    /\ filler_evolutions' \in
           choices(1..NumStrategies, test_size - total_evolutions)
    /\ fill_pos' = 1
    /\ pc' = "backfill"
    /\ UNCHANGED <<inputs, single, error, initialised, execs, current_nodes,
                   total_evolutions, evo, i, running, test_dataset>>

\* line 344, condition false: no backfill
SkipBackfill ==
    /\ pc = "step1"
    /\ evo > NumStrategies
    /\ total_evolutions > test_size
    /\ pc' = "run"
    /\ run_idx' = 1
    /\ UNCHANGED <<inputs, single, error, initialised, sched, results_calls,
                   evolve_calls, in_flight, failed_unit,
                   total_test_data_rows, test_dataset>>

\* lines 348-362: one iteration of the backfill loop
BackfillSubmit ==
    /\ pc = "backfill"
    /\ fill_pos <= Len(filler_evolutions)
    /\ execs' = SubmitToLast(execs,
                    [evolution |-> filler_evolutions[fill_pos],
                     node |-> current_nodes[total_evolutions + 1],
                     idx |-> total_evolutions, seq |-> total_evolutions],
                    total_evolutions)
    /\ total_evolutions' = total_evolutions + 1
    /\ fill_pos' = fill_pos + 1
    /\ UNCHANGED <<inputs, single, pc, error, initialised, current_nodes, evo, i,
                   filler_evolutions, running, test_dataset>>

\* line 348: the backfill loop ends; lines 364-366
BackfillDone ==
    /\ pc = "backfill"
    /\ fill_pos > Len(filler_evolutions)
    /\ pc' = "run"
    /\ run_idx' = 1
    /\ UNCHANGED <<inputs, single, error, initialised, sched, results_calls,
                   evolve_calls, in_flight, failed_unit,
                   total_test_data_rows, test_dataset>>

\* line 368 with every remaining unit started at once (a results() that
\* did not block)
UnitStartAll ==
    /\ pc = "run"
    /\ run_idx <= Len(execs)
    /\ results_calls' = results_calls \cup {run_idx}
    /\ evolve_calls' = evolve_calls + Len(execs[run_idx])
    /\ in_flight' = in_flight
                      + NumTasks(SubSeq(execs, run_idx, Len(execs)))
    /\ pc' = "results"
    /\ UNCHANGED <<inputs, single, error, initialised, sched, run_idx, failed_unit,
                   total_test_data_rows, test_dataset>>

\* lines 367-368: exec.results() is invoked on the next unit, which starts
\* every task registered in it
UnitStart ==
    /\ pc = "run"
    /\ run_idx <= Len(execs)
    /\ results_calls' = results_calls \cup {run_idx}
    /\ evolve_calls' = evolve_calls + Len(execs[run_idx])
    /\ in_flight' = in_flight + Len(execs[run_idx])
    /\ pc' = "results"
    /\ UNCHANGED <<inputs, single, error, initialised, sched, run_idx, failed_unit,
                   total_test_data_rows, test_dataset>>

\* inside Executor.results(): one started task settles
TaskSettle ==
    /\ pc = "results"
    /\ in_flight > 0
    /\ in_flight' = in_flight - 1
    /\ UNCHANGED <<inputs, single, pc, error, initialised, sched, run_idx,
                   results_calls, evolve_calls, failed_unit,
                   total_test_data_rows, test_dataset>>

\* lines 367-369, with the failure swallowed and the loop continued
RunUnitSwallow ==
    /\ pc = "results"
    /\ in_flight = 0
    /\ \E outcome \in Outcomes(Len(execs[run_idx]),
                                MaxInvalid - NumInvalid) :
         LET res == Executor_results(execs[run_idx], outcome,
                                     raise_exceptions)
         IN  /\ failed_unit' = FirstFailed(failed_unit, run_idx, outcome,
                                            raise_exceptions)
             /\ total_test_data_rows' = total_test_data_rows \o res.rows
             /\ run_idx' = run_idx + 1
             /\ pc' = "run"
             /\ UNCHANGED error
    /\ UNCHANGED <<inputs, single, initialised, sched, results_calls, evolve_calls,
                   in_flight, test_dataset>>

\* lines 368-369 (and 373-374): exec.results() returns once every task of
\* the unit has settled; a raised failure leaves generate at once,
\* otherwise the rows are appended and the loop goes on
RunUnit ==
    /\ pc = "results"
    /\ in_flight = 0
    /\ \E outcome \in Outcomes(Len(execs[run_idx]),
                                MaxInvalid - NumInvalid) :
         LET res == Executor_results(execs[run_idx], outcome,
                                     raise_exceptions)
         IN  /\ failed_unit' = FirstFailed(failed_unit, run_idx, outcome,
                                            raise_exceptions)
             /\ IF res.raised
                THEN /\ pc' = "raised"
                     /\ error' = "TaskFailure"
                     /\ UNCHANGED <<total_test_data_rows, run_idx>>
                ELSE /\ total_test_data_rows' =
                            ExtendRows(total_test_data_rows, res.rows)
                     /\ run_idx' = run_idx + 1
                     /\ pc' = "run"
                     /\ UNCHANGED error
    /\ UNCHANGED <<inputs, single, initialised, sched, results_calls, evolve_calls,
                   in_flight, test_dataset>>

\* lines 370-391: the emptiness test, made before the NaN filter; then the
\* NaNs are dropped and the rows are wrapped and returned
FilterAndReturn ==
    /\ pc = "run"
    /\ run_idx > Len(execs)
    /\ IF total_test_data_rows = <<>>
       THEN /\ pc' = "raised"
            /\ error' = "ExceptionInRunner"
            /\ UNCHANGED test_dataset
       ELSE /\ test_dataset' = TestDataset(DropNaNs(total_test_data_rows))
            /\ pc' = "done"
            /\ UNCHANGED error
    /\ UNCHANGED <<inputs, single, initialised, sched, running>>

(* --------------------------- generate_single -------------------------- *)
\* lines 395-399: the run config and the strategy's collaborators
SingleInit ==
    /\ pc = "single_init"
    /\ evolution' = init_evolution(evolution)
    /\ pc' = "single_select"
    /\ UNCHANGED <<inputs, node, error, initialised, sched, running,
                   test_dataset>>

\* lines 401-405: the node at node_index (a Python list index: the assert
\* bounds it from above only, an index in [-len, -1] counts from the end,
\* one below -len raises IndexError), or a sampled node
SingleSelect ==
    /\ pc = "single_select"
    /\ IF node_index = <<>>
       THEN /\ node' \in 0..(num_nodes - 1)
            /\ pc' = "single_evolve"
            /\ UNCHANGED error
       ELSE IF ~(node_index[1] < num_nodes)
       THEN /\ pc' = "raised"
            /\ error' = "AssertionError"
            /\ UNCHANGED node
       ELSE IF node_index[1] < -num_nodes
       THEN /\ pc' = "raised"
            /\ error' = "IndexError"
            /\ UNCHANGED node
       ELSE /\ node' = IF node_index[1] < 0 THEN num_nodes + node_index[1]
                       ELSE node_index[1]
            /\ pc' = "single_evolve"
            /\ UNCHANGED error
    /\ UNCHANGED <<inputs, evolution, initialised, sched, running,
                   test_dataset>>

\* lines 407-412: await evolution.evolve(current_node)
SingleEvolve ==
    /\ pc = "single_evolve"
    /\ evolve_calls' = evolve_calls + 1
    /\ \E outcome \in {"row", "nan", "fail"} :
         IF outcome = "fail"
         THEN /\ pc' = "raised"
              /\ error' = "TaskFailure"
              /\ UNCHANGED total_test_data_rows
         ELSE /\ total_test_data_rows' =
                    << IF outcome = "row"
                       THEN DataRow([seq |-> 0, evolution |-> 1,
                                     node |-> node])
                       ELSE NaN >>
              /\ pc' = "single_return"
              /\ UNCHANGED error
    /\ UNCHANGED <<inputs, single, initialised, sched, run_idx,
                   results_calls, in_flight, failed_unit, test_dataset>>

\* lines 414-417: the row wrapped in a TestDataset, or None
SingleReturn ==
    /\ pc = "single_return"
    /\ test_dataset' = IF ~is_nan(total_test_data_rows[1])
                       THEN TestDataset(total_test_data_rows)
                       ELSE NoDataset
    /\ pc' = "done"
    /\ UNCHANGED <<inputs, single, error, initialised, sched, running>>

Next ==
    \/ SingleInit
    \/ SingleSelect
    \/ SingleEvolve
    \/ SingleReturn
    \/ Validate
    \/ InitEvolutions
    \/ CreateExecs
    \/ Step1Submit
    \/ Step1Next
    \/ BackfillDraw
    \/ SkipBackfill
    \/ BackfillSubmit
    \/ BackfillDone
    \/ UnitStart
    \/ TaskSettle
    \/ RunUnit
    \/ FilterAndReturn

Spec == Init /\ [][Next]_vars

(* ------------------------- derived quantities -------------------------- *)
Scheduled == call = "generate" /\ pc \in {"run", "results", "done"}
Terminated == pc \in {"done", "raised"}

AllTasks == UNION {{execs[u][k] : k \in 1..Len(execs[u])} : u \in 1..Len(execs)}

TypeOK ==
    /\ test_size \in 0..MaxTestSize
    /\ pc \in {"validate", "init", "create", "step1", "backfill", "run",
               "results", "done", "raised",
               "single_init", "single_select", "single_evolve",
               "single_return"}
    /\ error \in {"none", "ValueError", "IndexError", "TaskFailure",
                  "ExceptionInRunner", "AssertionError"}
    /\ (pc = "raised") = (error # "none")
    /\ call = "generate" => ((pc = "done") = test_dataset.returned)
    /\ test_dataset.returned => pc = "done"
    /\ node \in 0..MaxNodes

(* ------------------------------- claims -------------------------------- *)
\* C1: once scheduling is complete (step 1 and backfill done), exactly
\* test_size task assignments have been submitted over all executors;
\* stated for the accepted mappings whose weights all lie in [0, 1].
C1_ExactlyN ==
    (Scheduled /\ \A k \in 1..NumStrategies : distributions[k] \in 0..Scale)
    => NumTasks(execs) = test_size

\* C2: node-contexts are consumed in strictly increasing index order from
\* one cursor: a task submitted later holds a node-context of higher index,
\* so no node-context is handed to two assignments.
C2_NodesConsumedOnce ==
    \A t1, t2 \in AllTasks : t1.seq < t2.seq => t1.node < t2.node

\* C3: in every state of the scheduling loop the number of submitted task
\* assignments is at most test_size, rounding overshoot included; stated
\* for the accepted mappings whose weights all lie in [0, 1].
C3_CappedAtN ==
    (\A k \in 1..NumStrategies : distributions[k] \in 0..Scale)
    => NumTasks(execs) <= test_size

\* C4: when every task of a run with test_size >= 1 yields the NaN
\* sentinel, generate ends with ExceptionInRunner and returns no dataset.
C4_AllInvalidRaises ==
    (/\ test_size >= 1
     /\ Terminated
     /\ NumTasks(execs) >= 1
     /\ Len(total_test_data_rows) = NumTasks(execs)
     /\ \A k \in 1..Len(total_test_data_rows) :
            is_nan(total_test_data_rows[k]))
    => (error = "ExceptionInRunner" /\ ~test_dataset.returned)

\* C5: with test_size = 0 and an accepted mapping, generate submits no
\* task, invokes no strategy and returns an empty dataset without raising.
C5_ZeroSizeReturnsEmpty ==
    (test_size = 0 /\ check_if_sum_is_close(distributions) /\ Terminated)
    => (/\ pc = "done"
        /\ test_dataset = TestDataset(<<>>)
        /\ NumTasks(execs) = 0
        /\ evolve_calls = 0)

\* C6: generate creates exactly ceil(test_size / C) executors, all of size
\* C except the last, which holds the remainder; none is empty.
C6_CeilUnits ==
    Scheduled =>
        /\ Len(execs) = (test_size + max_parallel_process - 1)
                            \div max_parallel_process
        /\ \A u \in 1..Len(execs) :
              Len(execs[u]) = IF u < Len(execs) THEN max_parallel_process
                              ELSE test_size - max_parallel_process * (u - 1)

\* C7: in every state of scheduling no executor has more than C tasks.
C7_UnitAtMostC ==
    \A u \in 1..Len(execs) : Len(execs[u]) <= max_parallel_process

\* a full unit followed by a unit in use, in a run that overshoots test_size
C7_Witness ==
    /\ Len(execs) >= 2
    /\ Len(execs[1]) = max_parallel_process
    /\ Len(execs[2]) >= 2
    /\ NumTasks(execs) > test_size

\* C8: no two tasks registered in the same executor hold the same
\* node-context.
C8_NoSharedNodeInUnit ==
    \A u \in 1..Len(execs) : \A k1, k2 \in 1..Len(execs[u]) :
        k1 # k2 => execs[u][k1].node # execs[u][k2].node

\* C9: a returned dataset has test_size minus the number of invalid
\* outcomes rows, hence never more than test_size rows; stated for the
\* accepted mappings whose weights all lie in [0, 1].
C9_SizeMinusDrops ==
    (pc = "done" /\ \A k \in 1..NumStrategies : distributions[k] \in 0..Scale)
    =>
        /\ Len(test_dataset.test_data) = test_size - NumInvalid
        /\ Len(test_dataset.test_data) <= test_size

\* C10: with raise_exceptions set, once a task of unit u has failed generate
\* has raised: no outcome of unit u is kept, results() was invoked on units
\* 1..u only, and no dataset is returned.
C10_FailFast ==
    (raise_exceptions /\ failed_unit # 0)
    => (/\ pc = "raised"
        /\ error = "TaskFailure"
        /\ ~test_dataset.returned
        /\ results_calls = 1..failed_unit
        /\ Len(total_test_data_rows) =
               NumTasks(SubSeq(execs, 1, failed_unit - 1))
        /\ \A k \in 1..Len(total_test_data_rows) :
               is_nan(total_test_data_rows[k])
               \/ total_test_data_rows[k].seq <
                      max_parallel_process * (failed_unit - 1))

\* a failure in the first unit of a fail-fast run that has a later unit
\* with tasks registered
C10_Witness ==
    /\ raise_exceptions
    /\ failed_unit = 1
    /\ Len(execs) >= 2
    /\ Len(execs[2]) >= 1
    /\ pc = "raised"

\* C11: when validation of the weights fails, generate has raised the
\* configuration error before any other effect: no strategy initialised,
\* no executor created, no node-context sampled, no task submitted or run.
C11_ConfigErrorFirst ==
    (error = "ValueError")
    => (/\ pc = "raised"
        /\ initialised = {}
        /\ execs = <<>>
        /\ current_nodes = <<>>
        /\ total_evolutions = 0
        /\ results_calls = {}
        /\ evolve_calls = 0
        /\ ~test_dataset.returned)

\* a rejected mapping of several strategies with a positive test_size
C11_Witness ==
    /\ error = "ValueError"
    /\ ~check_if_sum_is_close(distributions)
    /\ NumStrategies >= 2
    /\ test_size >= 1

\* C12: units run one after another: the tasks outstanding (started and
\* not settled) all belong to the one unit whose results() is in progress,
\* they are never more than C, and generate ends only with none left.
C12_SequentialUnits ==
    /\ in_flight <= max_parallel_process
    /\ in_flight > 0 => (/\ pc = "results"
                         /\ results_calls = 1..run_idx
                         /\ in_flight <= Len(execs[run_idx]))
    /\ Terminated => in_flight = 0

\* the second unit is running with a task outstanding, after a full first
\* unit has returned its ten outcomes
C12_Witness ==
    /\ pc = "results"
    /\ run_idx = 2
    /\ in_flight >= 1
    /\ Len(execs[1]) = max_parallel_process
    /\ Len(total_test_data_rows) = max_parallel_process

\* C13: every row of a returned dataset is a valid row, whatever mix of
\* rows, NaN sentinels and tolerated failures the tasks produced.
C13_NoInvalidRow ==
    pc = "done" =>
        \A k \in 1..Len(test_dataset.test_data) :
            ~is_nan(test_dataset.test_data[k])

\* a returned dataset of a run in which some outcomes were NaN and some
\* were rows
C13_Witness ==
    /\ pc = "done"
    /\ NumInvalid >= 1
    /\ Len(test_dataset.test_data) >= 1

\* C14: the identifiers of the task assignments of one run are pairwise
\* distinct, whatever class names the strategies of the mapping carry
\* (two strategies may share one).
C14_UniqueNames ==
    \A class_of \in [1..NumStrategies -> ClassNames] :
        \A t1, t2 \in AllTasks :
            t1 # t2 => TaskName(class_of[t1.evolution], t1)
                           # TaskName(class_of[t2.evolution], t2)

\* the same with pairwise distinct class names (not a claim: the names
\* collide only between strategies of one class)
DistinctClassesUniqueNames ==
    \A t1, t2 \in AllTasks :
        t1 # t2 => <<t1.evolution, t1.idx>> # <<t2.evolution, t2.idx>>

\* C15: generate raises the configuration error exactly when the weights
\* differ from 1.0 in sum by 1e-3 or more (weights in thousandths).
C15_ConfigErrorIff ==
    pc # "validate" =>
        LET diff == SumSeq(distributions) - Scale
            abs == IF diff < 0 THEN -diff ELSE diff
        IN  (error = "ValueError") <=> (1000 * abs >= Scale)

\* a mapping whose sum is exactly one thousandth below 1.0 is rejected
C15_Witness ==
    /\ error = "ValueError"
    /\ SumSeq(distributions) = Scale - 1
    /\ NumStrategies >= 2

\* C16: in generate_single a node_index outside the node store's range
\* (at or above the number of nodes, or negative) fails with a bounds error
\* and the strategy's evolve is never invoked for it.
C16_OutOfRangeFails ==
    (/\ call = "generate_single"
     /\ node_index # <<>>
     /\ (node_index[1] >= num_nodes \/ node_index[1] < 0))
    => (/\ evolve_calls = 0
        /\ pc \notin {"single_init", "single_select"}
               => (pc = "raised"
                   /\ error \in {"AssertionError", "IndexError"}))

\* C19: once init_evolution(e) has returned, e has every shared
\* collaborator set (the evolution filter when e is composite), the
\* collaborators set before the call are unchanged, and a second call
\* changes nothing.
C19_InitEvolutionComplete ==
    (call = "generate_single" /\ pc # "single_init")
    => (/\ evolution.generator_llm # "None"
        /\ evolution.question_filter # "None"
        /\ evolution.node_filter # "None"
        /\ evolution.is_complex => evolution.evolution_filter # "None"
        /\ \A f \in {"generator_llm", "docstore", "question_filter",
                      "node_filter", "evolution_filter"} :
               evolution_in[f] # "None" => evolution[f] = evolution_in[f]
        /\ evolution.is_complex = evolution_in.is_complex
        /\ init_evolution(evolution) = evolution)

\* C17: the returned dataset lists the surviving rows in scheduling order:
\* of two rows, the one whose task was submitted earlier comes first.
C17_SchedulingOrder ==
    (call = "generate" /\ pc = "done") =>
        \A a, b \in 1..Len(test_dataset.test_data) :
            a < b => test_dataset.test_data[a].seq
                        < test_dataset.test_data[b].seq

\* a returned dataset with rows of two units and a dropped outcome
C17_Witness ==
    /\ call = "generate"
    /\ pc = "done"
    /\ NumInvalid >= 1
    /\ \E a, b \in 1..Len(test_dataset.test_data) :
          /\ test_dataset.test_data[a].seq < max_parallel_process
          /\ test_dataset.test_data[b].seq >= max_parallel_process

\* C18: a strategy of weight 0 gets no task assignment from the step-1
\* rounding loop (it can still be drawn by the backfill: C18_Witness).
C18_ZeroWeightNoStep1Task ==
    pc = "step1" =>
        \A t \in AllTasks : distributions[t.evolution] # 0

\* a backfill draw has given a task to a strategy of weight 0
C18_Witness ==
    /\ call = "generate"
    /\ pc \in {"backfill", "run", "results", "done"}
    /\ \E t \in AllTasks :
          /\ distributions[t.evolution] = 0
          /\ t.seq >= test_size - Len(filler_evolutions)
          /\ filler_evolutions[t.seq - (test_size - Len(filler_evolutions))
                                + 1] = t.evolution

\* C20: for every accepted mapping and every test_size, scheduling never
\* reads current_nodes outside [0, test_size): no IndexError.
C20_NoIndexError ==
    call = "generate" => error # "IndexError"
====
